---- MODULE Spec2Model ----
(***************************************************************************)
(* Model of specx_parser.parse (aiida_akaikkr/parsers/akaikkr_parser.py).  *)
(*                                                                         *)
(* One behaviour is one run of parse on one calculation node.  The job     *)
(* descriptor (go, magtype, retrieve_potential), the aiida major version   *)
(* and the retrieved-file list are fixed by Init; the results of the       *)
(* calls into pyakaikkr / pymatgen / json are chosen when the call is      *)
(* made.  Python's local-name binding is modelled explicitly (bound),      *)
(* because parse reads two locals, job and KKRValueAquisitionError, that   *)
(* are assigned only inside some branches.                                 *)
(***************************************************************************)
EXTENDS Naturals, Sequences, FiniteSets

VARIABLES
    aiida_major_version, \* int(aiida.__version__.split(".")[0])
    go,                  \* self.node.inputs.go.value
    magtype,             \* self.node.inputs.magtype
    retrieve_potential,  \* self.node.inputs.retrieve_potential.value
    files_retrieved,     \* output_folder.list_object_names()
    process_class,       \* the calculation class of the node
    retrieve_list,       \* calcinfo.retrieve_list registered at submission
    pc,                  \* position of the run inside parse
    result,              \* exit code returned / exception type raised
    outputs,             \* ports attached with self.out
    handles,             \* files currently open (inside a with block)
    bound,               \* local names of parse that have been assigned
    spc_i,               \* index of the for loop over port_list
    lib_exc,             \* <<call, exception>> an external call raised, or <<>>
    returned,            \* <<call, energy, dos>> lists get_dos / get_pdos returned
    arrays,              \* <<port, name, array>> set with set_array on attached nodes
    output_card,         \* what the library's scans find in the transcript
    get_history,         \* argument get_history of get_basic_properties
    props,               \* what the last call of get_basic_properties gave
    log                  \* history of folder accesses, calls and attachments

vars == <<aiida_major_version, go, magtype, retrieve_potential, files_retrieved,
          process_class, retrieve_list,
          pc, result, outputs, handles, bound, spc_i, lib_exc, returned, arrays,
          output_card, get_history, props, log>>

\* the data of the dos and pdos nodes
data == <<returned, arrays>>

\* the call of get_basic_properties
basic == <<output_card, get_history, props>>

inputs == <<aiida_major_version, go, magtype, retrieve_potential, files_retrieved,
            process_class, retrieve_list>>

(***************************************************************************)
(* Names used by the code                                                  *)
(***************************************************************************)
output_filename == "go.out"
input_filename == "go.in"
potential_filename == "pot.dat"
klabel_files_expected == "klabel.json"

\* f'{potential_filename}_up.spc'
SpcCheckName(post) == potential_filename \o "_" \o post

\* "_".join([potential_filename, postfix])
JoinName(postfix) == potential_filename \o "_" \o postfix

\* values of the go directive set by the calculation classes, plus bare spc
GoValues == {"go", "fsm", "dos", "j3.0", "tc", "spc31", "spc"}

MagTypes == {"nmag", "mag", "lmd"}

\* aiida major versions parse supports
Versions == {1, 2}

AllFiles == {output_filename, input_filename, potential_filename,
             SpcCheckName("up.spc"), SpcCheckName("dn.spc"), klabel_files_expected}

\* exception types
KKRError == "KKRValueAquisitionError"
OtherError == "Exception"
ExtractorResults == {"ok", KKRError, OtherError}

\* local names of parse that are assigned only in some branches
JobName == "job"
KKRName == "KKRValueAquisitionError"

Min(a, b) == IF a <= b THEN a ELSE b

\* s[:n]
Prefix(s, n) == SubSeq(s, 1, Min(n, Len(s)))

\* sub in s
Contains(s, sub) ==
    \E k \in 1..Len(s) : k + Len(sub) - 1 <= Len(s) /\ SubSeq(s, k, k + Len(sub) - 1) = sub

(***************************************************************************)
(* Completeness check, lines 115-145                                       *)
(***************************************************************************)
\* CheckFiles with the potential file required whatever retrieve_potential is
CheckFilesPotentialAlways(g, m, rp, files) ==
    IF output_filename \notin files THEN "ERROR_OUTPUT_STDOUT_MISSING"
    ELSE IF input_filename \notin files THEN "ERROR_OUTPUT_STDIN_MISSING"
    ELSE IF potential_filename \notin files THEN "ERROR_OUTPUT_POTENTIAL_MISSING"
    ELSE IF Contains(g, "spc")
         THEN IF m = "nmag"
              THEN IF SpcCheckName("up.spc") \notin files THEN "ERROR_OUTPUT_SPC_MISSING"
                   ELSE IF klabel_files_expected \notin files THEN "ERROR_OUTPUT_SPC_MISSING"
                   ELSE "ok"
              ELSE IF SpcCheckName("up.spc") \notin files THEN "ERROR_OUTPUT_SPC_MISSING"
                   ELSE IF SpcCheckName("up.spc") \notin files THEN "ERROR_OUTPUT_SPC_MISSING"
                   ELSE IF klabel_files_expected \notin files THEN "ERROR_OUTPUT_SPC_MISSING"
                   ELSE "ok"
    ELSE "ok"

\* CheckFiles with the potential test written as a comparison of the option
\* with the presence of the file
CheckFilesPotentialMismatch(g, m, rp, files) ==
    IF output_filename \notin files THEN "ERROR_OUTPUT_STDOUT_MISSING"
    ELSE IF input_filename \notin files THEN "ERROR_OUTPUT_STDIN_MISSING"
    ELSE IF rp # (potential_filename \in files) THEN "ERROR_OUTPUT_POTENTIAL_MISSING"
    ELSE IF Contains(g, "spc")
         THEN IF m = "nmag"
              THEN IF SpcCheckName("up.spc") \notin files THEN "ERROR_OUTPUT_SPC_MISSING"
                   ELSE IF klabel_files_expected \notin files THEN "ERROR_OUTPUT_SPC_MISSING"
                   ELSE "ok"
              ELSE IF SpcCheckName("up.spc") \notin files THEN "ERROR_OUTPUT_SPC_MISSING"
                   ELSE IF SpcCheckName("up.spc") \notin files THEN "ERROR_OUTPUT_SPC_MISSING"
                   ELSE IF klabel_files_expected \notin files THEN "ERROR_OUTPUT_SPC_MISSING"
                   ELSE "ok"
    ELSE "ok"

CheckFiles(g, m, rp, files) ==
    IF output_filename \notin files THEN "ERROR_OUTPUT_STDOUT_MISSING"
    ELSE IF input_filename \notin files THEN "ERROR_OUTPUT_STDIN_MISSING"
    ELSE IF rp /\ potential_filename \notin files THEN "ERROR_OUTPUT_POTENTIAL_MISSING"
    ELSE IF Contains(g, "spc")
         THEN IF m = "nmag"
              THEN IF SpcCheckName("up.spc") \notin files THEN "ERROR_OUTPUT_SPC_MISSING"
                   ELSE IF klabel_files_expected \notin files THEN "ERROR_OUTPUT_SPC_MISSING"
                   ELSE "ok"
              ELSE IF SpcCheckName("up.spc") \notin files THEN "ERROR_OUTPUT_SPC_MISSING"
                   ELSE IF SpcCheckName("up.spc") \notin files THEN "ERROR_OUTPUT_SPC_MISSING"
                   ELSE IF klabel_files_expected \notin files THEN "ERROR_OUTPUT_SPC_MISSING"
                   ELSE "ok"
    ELSE "ok"

(***************************************************************************)
(* get_basic_properties, lines 27-76                                       *)
(***************************************************************************)
\* line 67
core_names == <<"1s", "2s", "2p", "3s", "3d", "4s", "4p", "4d", "4f">>

\* the scans of the output card in calling order, lines 42-68
Scans(history) ==
    <<"get_convergence">>
    \o (IF history
        THEN <<"get_rms_error", "get_err_history", "get_te_history", "get_moment_history">>
        ELSE <<>>)
    \o <<"get_lattice_constant", "get_struc_param", "get_ntype", "get_type_of_site",
         "get_magtyp", "get_unitcell_volume", "get_ewidth", "get_go", "get_potentialfile",
         "get_edelt", "get_fermi_level", "get_total_energy", "get_total_moment",
         "get_local_moment", "get_type_charge", "get_prim_vec", "get_atom_coord",
         "get_core_level">>

\* the keys of results a scan fills
ScanKeys(scan) ==
    IF scan = "get_convergence" THEN {"convervence"}
    ELSE IF scan = "get_atom_coord" THEN {"atom_coords", "atom_names"}
    ELSE {SubSeq(scan, 5, Len(scan))}

\* the loop of lines 69-74 with the else branch left out
core_level_present_only(card) ==
    LET n == Min(Len(core_names), Min(Len(card.core_exist), Len(card.core_level)))
        present == {k \in 1..n : card.core_exist[k]}
    IN  [s \in {core_names[k] : k \in present} |->
            card.core_level[CHOOSE k \in present : core_names[k] = s]]

\* lines 69-74: the loop over zip(core_names, core_exist, _core_level)
core_level(card) ==
    LET n == Min(Len(core_names), Min(Len(card.core_exist), Len(card.core_level)))
    IN  [s \in {core_names[k] : k \in 1..n} |->
            LET k == CHOOSE j \in 1..n : core_names[j] = s
            IN  IF card.core_exist[k] THEN card.core_level[k] ELSE "None"]

\* the value stored under a key
ValueOf(key, card) == IF key = "core_level" THEN core_level(card) ELSE "value"

\* the record built by the scans called[1..n]
Collected(called, n, card) ==
    [key \in UNION {ScanKeys(called[k]) : k \in 1..n} |-> ValueOf(key, card)]

\* get_basic_properties returning what it has collected when a scan raises
get_basic_properties_partial(card, history) ==
    LET called == Scans(history)
        failing == {k \in 1..Len(called) : card.fail # <<>> /\ called[k] = card.fail[1]}
    IN  IF failing # {}
        THEN [status |-> "ok", exc |-> "",
              results |-> Collected(called, (CHOOSE k \in failing : TRUE) - 1, card)]
        ELSE [status |-> "ok", exc |-> "", results |-> Collected(called, Len(called), card)]

\* lines 39-76: an exception of a scan leaves the function; otherwise the
\* record of all scans is returned
get_basic_properties(card, history) ==
    LET called == Scans(history)
        failing == {k \in 1..Len(called) : card.fail # <<>> /\ called[k] = card.fail[1]}
    IN  IF failing # {}
        THEN [status |-> "raised", exc |-> card.fail[2], results |-> Collected(called, 0, card)]
        ELSE [status |-> "ok", exc |-> "", results |-> Collected(called, Len(called), card)]

\* core-level energies as printed in the transcript
LevelLists ==
    { <<"-500.1", "-60.2", "-50.3", "-8.4", "-1.5", "-0.6", "-0.5", "-0.4", "-0.3">>,
      <<"-0.3", "-0.4", "-0.5", "-0.6", "-1.5", "-8.4", "-50.3", "-60.2", "-500.1">> }

\* transcripts on which every scan succeeds: one presence flag and one
\* energy per requested orbital label
GoodCards ==
    { [fail |-> <<>>, core_exist |-> e, core_level |-> l] :
        e \in [1..Len(core_names) -> BOOLEAN], l \in LevelLists }

\* transcripts on which one scan raises
FailCards ==
    { [fail |-> <<scan, exc>>,
       core_exist |-> [k \in 1..Len(core_names) |-> TRUE],
       core_level |-> CHOOSE l \in LevelLists : l[1] = "-500.1"] :
        scan \in {"get_convergence", "get_rms_error", "get_core_level"},
        exc \in {KKRError, OtherError} }

\* the transcripts of the runs of parse: a well-formed one and one per
\* exception type
ParseCards ==
    { c \in GoodCards : c.core_level[1] = "-500.1"
                        /\ \A k \in 1..Len(core_names) : c.core_exist[k] = (k <= 3) }
    \cup { c \in FailCards : c.fail[1] = "get_convergence" }

NoCard == [fail |-> <<>>, core_exist |-> <<>>, core_level |-> <<>>]
NoProps == [status |-> "none", exc |-> "", results |-> Collected(<<>>, 0, NoCard)]

Init ==
    /\ aiida_major_version \in Versions
    /\ go \in GoValues
    /\ magtype \in MagTypes
    /\ retrieve_potential \in BOOLEAN
    /\ files_retrieved \in SUBSET AllFiles
    /\ process_class = "specx_basic"
    /\ retrieve_list = <<>>
    /\ pc = "parse"
    /\ result = "none"
    /\ outputs = {}
    /\ handles = {}
    /\ bound = {}
    /\ spc_i = 1
    /\ lib_exc = <<>>
    /\ returned = {}
    /\ arrays = {}
    /\ output_card = NoCard
    /\ get_history = TRUE
    /\ props = NoProps
    /\ log = <<>>

\* return self.exit_codes.<code>
Return(code) ==
    /\ pc' = "returned"
    /\ result' = code

\* an exception leaves parse
Raise(exc) ==
    /\ pc' = "raised"
    /\ result' = exc

\* ParseBegin with the transcript read before the presence checks
ParseBeginReadsFirst ==
    /\ pc = "parse"
    /\ IF aiida_major_version \notin {1, 2}
       THEN /\ Raise("ValueError")
            /\ log' = log
       ELSE /\ log' = log \o << <<"list", "">>, <<"read", output_filename>> >>
            /\ LET kind == CheckFiles(go, magtype, retrieve_potential, files_retrieved)
               IN  IF kind = "ok"
                   THEN pc' = "add_potential" /\ result' = result
                   ELSE Return(kind)
    /\ UNCHANGED <<inputs, data, basic, outputs, handles, bound, spc_i, lib_exc>>

\* parse, lines 107-145: version switch, list_object_names, presence checks
ParseBegin ==
    /\ pc = "parse"
    /\ IF aiida_major_version \notin {1, 2}
       THEN /\ Raise("ValueError")
            /\ log' = log
       ELSE /\ log' = Append(log, <<"list", "">>)
            /\ LET kind == CheckFiles(go, magtype, retrieve_potential, files_retrieved)
               IN  IF kind = "ok"
                   THEN pc' = "add_potential" /\ result' = result
                   ELSE Return(kind)
    /\ UNCHANGED <<inputs, data, basic, outputs, handles, bound, spc_i, lib_exc>>

\* with output_folder.open(name, ...) as handle: entering the block
Open(name, body) ==
    /\ log' = Append(log, <<"open", name>>)
    /\ IF name \in files_retrieved
       THEN /\ handles' = handles \cup {name}
            /\ pc' = body
            /\ UNCHANGED <<result, lib_exc>>
       ELSE /\ handles' = handles
            /\ lib_exc' = <<"open", "FileNotFoundError">>
            /\ Raise("FileNotFoundError")

\* what an "except KKRValueAquisitionError:" clause does with exception exc
\* raised in its try body, given the local names bound so far: evaluating
\* the unbound local raises UnboundLocalError in place of exc
ExceptClause(exc, bnd) ==
    IF KKRName \notin bnd THEN "UnboundLocalError"
    ELSE IF exc = KKRError THEN "handled"
    ELSE exc

\* try: ... except KKRValueAquisitionError: return self.exit_codes.<code>
Except(exc, code, bnd) ==
    IF ExceptClause(exc, bnd) = "handled"
    THEN Return(code)
    ELSE Raise(ExceptClause(exc, bnd))

\* lines 147-151: add a potential file
SkipPotential ==
    /\ pc = "add_potential"
    /\ ~retrieve_potential
    /\ pc' = "extract"
    /\ UNCHANGED <<inputs, data, basic, result, outputs, handles, bound, spc_i, lib_exc, log>>

OpenPotential ==
    /\ pc = "add_potential"
    /\ retrieve_potential
    /\ Open(potential_filename, "potential_body")
    /\ UNCHANGED <<inputs, data, basic, outputs, bound, spc_i>>

\* PotentialBody without the self.out call
PotentialBodyNotAttached ==
    /\ pc = "potential_body"
    /\ outputs' = outputs
    /\ log' = log
    /\ handles' = handles \ {potential_filename}
    /\ pc' = "extract"
    /\ UNCHANGED <<inputs, data, basic, result, bound, spc_i, lib_exc>>

PotentialBody ==
    /\ pc = "potential_body"
    /\ outputs' = outputs \cup {"potential"}
    /\ log' = Append(log, <<"out", "potential">>)
    /\ handles' = handles \ {potential_filename}
    /\ pc' = "extract"
    /\ UNCHANGED <<inputs, data, basic, result, bound, spc_i, lib_exc>>

\* Extract without the self.out call of line 160
ExtractNotAttached ==
    /\ pc = "extract"
    /\ \E card \in ParseCards :
         LET called == log \o << <<"read", output_filename>>,
                                 <<"call", "get_basic_properties">> >>
             got == get_basic_properties(card, get_history)
         IN  /\ output_card' = card
             /\ props' = got
             /\ IF got.status = "ok"
                THEN /\ outputs' = outputs
                     /\ log' = called
                     /\ pc' = "structure"
                     /\ UNCHANGED <<result, lib_exc>>
                ELSE /\ lib_exc' = <<"get_basic_properties", got.exc>>
                     /\ log' = called
                     /\ outputs' = outputs
                     /\ Except(got.exc, "ERROR_OUTPUT_STDOUT_PARSE", bound)
    /\ UNCHANGED <<inputs, data, get_history, handles, bound, spc_i>>

\* lines 153-160: parse output file
Extract ==
    /\ pc = "extract"
    /\ \E card \in ParseCards :
         LET called == log \o << <<"read", output_filename>>,
                                 <<"call", "get_basic_properties">> >>
             got == get_basic_properties(card, get_history)
         IN  /\ output_card' = card
             /\ props' = got
             /\ IF got.status = "ok"
                THEN /\ outputs' = outputs \cup {"results"}
                     /\ log' = Append(called, <<"out", "results">>)
                     /\ pc' = "structure"
                     /\ UNCHANGED <<result, lib_exc>>
                ELSE /\ lib_exc' = <<"get_basic_properties", got.exc>>
                     /\ log' = called
                     /\ outputs' = outputs
                     /\ Except(got.exc, "ERROR_OUTPUT_STDOUT_PARSE", bound)
    /\ UNCHANGED <<inputs, data, get_history, handles, bound, spc_i>>

\* DerivesStructure without the lmd test
DerivesStructureAlways(m) == m \in MagTypes

\* line 162
DerivesStructure(m) == m # "lmd"

SkipStructure ==
    /\ pc = "structure"
    /\ ~DerivesStructure(magtype)
    /\ pc' = "dos"
    /\ UNCHANGED <<inputs, data, basic, result, outputs, handles, bound, spc_i, lib_exc, log>>

OpenStructure ==
    /\ pc = "structure"
    /\ DerivesStructure(magtype)
    /\ Open(output_filename, "structure_body")
    /\ UNCHANGED <<inputs, data, basic, outputs, bound, spc_i>>

\* OnValueError with the return dropped: log the error and go on
OnValueErrorSkip ==
    /\ log' = log \o << <<"call", "make_pymatgenstructure">>, <<"call", "get_atoms">>,
                        <<"logger.error", "failed to convert">> >>
    /\ outputs' = outputs
    /\ pc' = "dos"
    /\ result' = result

\* what parse does when aseadaptor.get_atoms raises ValueError, lines 172-176
OnValueError ==
    /\ log' = log \o << <<"call", "make_pymatgenstructure">>, <<"call", "get_atoms">>,
                        <<"logger.error", "failed to convert">> >>
    /\ outputs' = outputs
    /\ Return("ERROR_UNEXPECTED_PARSER_EXCEPTION")

\* lines 165-179
StructureBody ==
    /\ pc = "structure_body"
    /\ bound' = bound \cup {JobName}
    /\ handles' = handles \ {output_filename}
    /\ \E made \in {"ok", OtherError}, conv \in {"ok", "ValueError", OtherError} :
         IF made # "ok"
         THEN /\ conv = "ok"
              /\ lib_exc' = <<"make_pymatgenstructure", made>>
              /\ log' = Append(log, <<"call", "make_pymatgenstructure">>)
              /\ outputs' = outputs
              /\ Raise(made)
         ELSE IF conv = "ValueError"
         THEN /\ lib_exc' = <<"get_atoms", conv>>
              /\ OnValueError
         ELSE IF conv # "ok"
         THEN /\ lib_exc' = <<"get_atoms", conv>>
              /\ log' = log \o << <<"call", "make_pymatgenstructure">>, <<"call", "get_atoms">> >>
              /\ outputs' = outputs
              /\ Raise(conv)
         ELSE /\ log' = log \o << <<"call", "make_pymatgenstructure">>, <<"call", "get_atoms">>,
                                 <<"out", "structure">> >>
              /\ outputs' = outputs \cup {"structure"}
              /\ pc' = "dos"
              /\ UNCHANGED <<result, lib_exc>>
    /\ UNCHANGED <<inputs, data, basic, spc_i>>

\* the body of a with block that calls one extractor under try/except and
\* attaches one port: lines 211-220
ExtractorBody(call, port, code, next) ==
    /\ bound' = bound \cup {JobName}
    /\ handles' = handles \ {output_filename}
    /\ \E r \in ExtractorResults :
         IF r = "ok"
         THEN /\ outputs' = outputs \cup {port}
              /\ log' = log \o << <<"call", call>>, <<"out", port>> >>
              /\ pc' = next
              /\ UNCHANGED <<result, lib_exc>>
         ELSE /\ lib_exc' = <<call, r>>
              /\ log' = Append(log, <<"call", call>>)
              /\ outputs' = outputs
              /\ Except(r, code, bound)
    /\ UNCHANGED <<inputs, data, basic, spc_i>>

\* rows of a density-of-states table as printed in the transcript
DosRows == { <<"-1.0", "0.1">>, <<"-0.5", "0.3">> }

\* longest table the extractors return in the model
MaxRows == 2

DosTables == UNION { [1..n -> DosRows] : n \in 0..MaxRows }

\* np.array(values): the elements in the order of the list
np_array(values) == [k \in 1..Len(values) |-> values[k]]

\* set_arrays with the two arrays stored under each other's name
set_arrays_swapped(port, name, energy, dos) ==
    { <<port, "energy", np_array(dos)>>, <<port, name, np_array(energy)>> }

\* lines 190-193, 203-206: set_array('energy', energy); set_array(name, dos)
set_arrays(port, name, energy, dos) ==
    { <<port, "energy", np_array(energy)>>, <<port, name, np_array(dos)>> }

\* ArrayBody with the file opened outside a with block and never closed
ArrayBodyNoClose(call, port, code, next) ==
    /\ bound' = bound \cup {JobName}
    /\ handles' = handles
    /\ \E r \in ExtractorResults :
         IF r = "ok"
         THEN \E t \in DosTables :
                LET energy == [k \in 1..Len(t) |-> t[k][1]]
                    dos == [k \in 1..Len(t) |-> t[k][2]]
                IN  /\ returned' = returned \cup { <<call, energy, dos>> }
                    /\ arrays' = arrays \cup set_arrays(port, port, energy, dos)
                    /\ outputs' = outputs \cup {port}
                    /\ log' = log \o << <<"call", call>>, <<"out", port>> >>
                    /\ pc' = next
                    /\ UNCHANGED <<result, lib_exc>>
         ELSE /\ lib_exc' = <<call, r>>
              /\ log' = Append(log, <<"call", call>>)
              /\ outputs' = outputs
              /\ Except(r, code, bound)
              /\ UNCHANGED data
    /\ UNCHANGED <<inputs, basic, spc_i>>

\* the body of the dos and pdos with blocks, lines 184-194 and 197-207:
\* the extractor returns the two columns of the table as two lists
ArrayBody(call, port, code, next) ==
    /\ bound' = bound \cup {JobName}
    /\ handles' = handles \ {output_filename}
    /\ \E r \in ExtractorResults :
         IF r = "ok"
         THEN \E t \in DosTables :
                LET energy == [k \in 1..Len(t) |-> t[k][1]]
                    dos == [k \in 1..Len(t) |-> t[k][2]]
                IN  /\ returned' = returned \cup { <<call, energy, dos>> }
                    /\ arrays' = arrays \cup set_arrays(port, port, energy, dos)
                    /\ outputs' = outputs \cup {port}
                    /\ log' = log \o << <<"call", call>>, <<"out", port>> >>
                    /\ pc' = next
                    /\ UNCHANGED <<result, lib_exc>>
         ELSE /\ lib_exc' = <<call, r>>
              /\ log' = Append(log, <<"call", call>>)
              /\ outputs' = outputs
              /\ Except(r, code, bound)
              /\ UNCHANGED data
    /\ UNCHANGED <<inputs, basic, spc_i>>

\* RunsDos with the comparison inverted
RunsDosInverted(g) == g # "dos"

\* line 181
RunsDos(g) == g = "dos"

SkipDos ==
    /\ pc = "dos"
    /\ ~RunsDos(go)
    /\ pc' = "jij"
    /\ UNCHANGED <<inputs, data, basic, result, outputs, handles, bound, spc_i, lib_exc, log>>

\* lines 182-183: the import binds the local name KKRValueAquisitionError
OpenDos ==
    /\ pc = "dos"
    /\ RunsDos(go)
    /\ bound' = bound \cup {KKRName}
    /\ Open(output_filename, "dos_body")
    /\ UNCHANGED <<inputs, data, basic, outputs, spc_i>>

DosBody ==
    /\ pc = "dos_body"
    /\ ArrayBody("get_dos", "dos", "ERROR_OUTPUT_DOS_PARSE", "pdos")

OpenPdos ==
    /\ pc = "pdos"
    /\ Open(output_filename, "pdos_body")
    /\ UNCHANGED <<inputs, data, basic, outputs, bound, spc_i>>

PdosBody ==
    /\ pc = "pdos_body"
    /\ ArrayBody("get_pdos", "pdos", "ERROR_OUTPUT_PDOS_PARSE", "jij")

\* line 209
RunsJij(g) == Prefix(g, 1) = "j"

SkipJij ==
    /\ pc = "jij"
    /\ ~RunsJij(go)
    /\ pc' = "tc"
    /\ UNCHANGED <<inputs, data, basic, result, outputs, handles, bound, spc_i, lib_exc, log>>

OpenJij ==
    /\ pc = "jij"
    /\ RunsJij(go)
    /\ Open(output_filename, "jij_body")
    /\ UNCHANGED <<inputs, data, basic, outputs, bound, spc_i>>

JijBody ==
    /\ pc = "jij_body"
    /\ ExtractorBody("get_jij_as_dataframe", "Jij", "ERROR_OUTPUT_JIJ_PARSE", "tc")

\* line 222
RunsTc(g) == Prefix(g, 1) = "j" \/ g = "tc"

SkipTc ==
    /\ pc = "tc"
    /\ ~RunsTc(go)
    /\ pc' = "spc"
    /\ UNCHANGED <<inputs, data, basic, result, outputs, handles, bound, spc_i, lib_exc, log>>

OpenTc ==
    /\ pc = "tc"
    /\ RunsTc(go)
    /\ Open(output_filename, "tc_body")
    /\ UNCHANGED <<inputs, data, basic, outputs, bound, spc_i>>

\* lines 224-228: this block does not assign job before using it
TcBody ==
    /\ pc = "tc_body"
    /\ handles' = handles \ {output_filename}
    /\ IF JobName \notin bound
       THEN /\ Except("UnboundLocalError", "ERROR_OUTPUT_CURIE_TEMPERATURE_PARSE", bound)
            /\ UNCHANGED <<outputs, lib_exc, log>>
       ELSE \E r \in ExtractorResults :
              IF r = "ok"
              THEN /\ outputs' = outputs \cup {"Tc"}
                   /\ log' = log \o << <<"call", "get_curie_temperature">>, <<"out", "Tc">> >>
                   /\ pc' = "spc"
                   /\ UNCHANGED <<result, lib_exc>>
              ELSE /\ lib_exc' = <<"get_curie_temperature", r>>
                   /\ log' = Append(log, <<"call", "get_curie_temperature">>)
                   /\ outputs' = outputs
                   /\ Except(r, "ERROR_OUTPUT_CURIE_TEMPERATURE_PARSE", bound)
    /\ UNCHANGED <<inputs, data, basic, bound, spc_i>>

\* line 230
RunsSpc(g) == Prefix(g, 3) = "spc"

\* port_list without the second spin channel
port_list_up_only(m) == <<"Awk_up">>

\* lines 231-236
port_list(m) == IF m = "nmag" THEN <<"Awk_up">> ELSE <<"Awk_up", "Awk_dn">>
postfix_list(m) == IF m = "nmag" THEN <<"up.spc">> ELSE <<"up.spc", "dn.spc">>

\* number of turns of the loop over zip(port_list, postfix_list), line 237
zip_len(m) == Min(Len(port_list(m)), Len(postfix_list(m)))

SkipSpc ==
    /\ pc = "spc"
    /\ ~RunsSpc(go)
    /\ pc' = "end"
    /\ UNCHANGED <<inputs, data, basic, result, outputs, handles, bound, spc_i, lib_exc, log>>

\* lines 237-239: next turn of the loop over zip(port_list, postfix_list)
OpenAwk ==
    /\ pc = "spc"
    /\ RunsSpc(go)
    /\ spc_i <= zip_len(magtype)
    /\ Open(JoinName(postfix_list(magtype)[spc_i]), "awk_body")
    /\ UNCHANGED <<inputs, data, basic, outputs, bound, spc_i>>

\* lines 240-242
AwkBody ==
    /\ pc = "awk_body"
    /\ handles' = handles \ {JoinName(postfix_list(magtype)[spc_i])}
    /\ outputs' = outputs \cup {port_list(magtype)[spc_i]}
    /\ log' = Append(log, <<"out", port_list(magtype)[spc_i]>>)
    /\ spc_i' = spc_i + 1
    /\ pc' = "spc"
    /\ UNCHANGED <<inputs, data, basic, result, bound, lib_exc>>

\* line 244
OpenKlabel ==
    /\ pc = "spc"
    /\ RunsSpc(go)
    /\ spc_i > zip_len(magtype)
    /\ Open("klabel.json", "klabel_body")
    /\ UNCHANGED <<inputs, data, basic, outputs, bound, spc_i>>

\* lines 245-247
KlabelBody ==
    /\ pc = "klabel_body"
    /\ handles' = handles \ {"klabel.json"}
    /\ \E r \in {"ok", "JSONDecodeError"} :
         IF r = "ok"
         THEN /\ outputs' = outputs \cup {"klabel"}
              /\ log' = log \o << <<"call", "json.load">>, <<"out", "klabel">> >>
              /\ pc' = "end"
              /\ UNCHANGED <<result, lib_exc>>
         ELSE /\ lib_exc' = <<"json.load", r>>
              /\ log' = Append(log, <<"call", "json.load">>)
              /\ outputs' = outputs
              /\ Raise(r)
    /\ UNCHANGED <<inputs, data, basic, bound, spc_i>>

\* lines 249-250: ExitCode(0) under aiida 2, the implicit None under aiida 1
End ==
    /\ pc = "end"
    /\ Return(IF aiida_major_version = 2 THEN "ExitCode(0)" ELSE "None")
    /\ UNCHANGED <<inputs, data, basic, outputs, handles, bound, spc_i, lib_exc, log>>

Next ==
    \/ ParseBegin
    \/ SkipPotential \/ OpenPotential \/ PotentialBody
    \/ Extract
    \/ SkipStructure \/ OpenStructure \/ StructureBody
    \/ SkipDos \/ OpenDos \/ DosBody \/ OpenPdos \/ PdosBody
    \/ SkipJij \/ OpenJij \/ JijBody
    \/ SkipTc \/ OpenTc \/ TcBody
    \/ SkipSpc \/ OpenAwk \/ AwkBody \/ OpenKlabel \/ KlabelBody
    \/ End

Spec == Init /\ [][Next]_vars

(***************************************************************************)
(* get_basic_properties called on its own, with either value of            *)
(* get_history, next to the runs of parse                                  *)
(***************************************************************************)
InitCall ==
    /\ aiida_major_version \in Versions
    /\ go = "go"
    /\ magtype = "nmag"
    /\ retrieve_potential = FALSE
    /\ files_retrieved = AllFiles
    /\ process_class = "specx_basic"
    /\ retrieve_list = <<>>
    /\ pc = "call"
    /\ result = "none"
    /\ outputs = {}
    /\ handles = {}
    /\ bound = {}
    /\ spc_i = 1
    /\ lib_exc = <<>>
    /\ returned = {}
    /\ arrays = {}
    /\ output_card \in GoodCards \cup FailCards
    /\ get_history \in BOOLEAN
    /\ props = NoProps
    /\ log = <<>>

GetBasicProperties ==
    /\ pc = "call"
    /\ props' = get_basic_properties(output_card, get_history)
    /\ pc' = "called"
    /\ UNCHANGED <<inputs, data, output_card, get_history, result, outputs, handles,
                   bound, spc_i, lib_exc, log>>

NextProps == Next \/ GetBasicProperties

SpecProps == (Init \/ InitCall) /\ [][NextProps]_vars

(***************************************************************************)
(* Vocabulary of the properties                                            *)
(***************************************************************************)
Success == {"ExitCode(0)", "None"}

PresenceKinds == {"ERROR_OUTPUT_STDOUT_MISSING", "ERROR_OUTPUT_STDIN_MISSING",
                  "ERROR_OUTPUT_POTENTIAL_MISSING", "ERROR_OUTPUT_SPC_MISSING",
                  "ERROR_OUTPUT_KLABEL_MISSING"}

FailureKinds == PresenceKinds \cup
                {"ERROR_OUTPUT_STDOUT_PARSE", "ERROR_OUTPUT_DOS_PARSE",
                 "ERROR_OUTPUT_PDOS_PARSE", "ERROR_OUTPUT_JIJ_PARSE",
                 "ERROR_OUTPUT_CURIE_TEMPERATURE_PARSE",
                 "ERROR_UNEXPECTED_PARSER_EXCEPTION"}

Terminated == pc \in {"returned", "raised"}

Logged(event) == \E k \in 1..Len(log) : log[k] = event

\* the files the run needs: stdout and stdin always, pot.dat when
\* retrieve_potential is set, and in spc modes the up file, the dn file for
\* a magnetic run, and klabel.json
RequiredFiles ==
    {output_filename, input_filename}
    \cup (IF retrieve_potential THEN {potential_filename} ELSE {})
    \cup (IF Prefix(go, 3) = "spc"
          THEN {"pot.dat_up.spc", "klabel.json"}
               \cup (IF magtype # "nmag" THEN {"pot.dat_dn.spc"} ELSE {})
          ELSE {})

\* the kind of the first absent artifact in the order stdout, stdin,
\* potential, spc, klabel; "ok" when nothing required is absent
FirstMissingKind ==
    IF output_filename \notin files_retrieved THEN "ERROR_OUTPUT_STDOUT_MISSING"
    ELSE IF input_filename \notin files_retrieved THEN "ERROR_OUTPUT_STDIN_MISSING"
    ELSE IF potential_filename \in RequiredFiles \ files_retrieved
         THEN "ERROR_OUTPUT_POTENTIAL_MISSING"
    ELSE IF {"pot.dat_up.spc", "pot.dat_dn.spc"} \cap (RequiredFiles \ files_retrieved) # {}
         THEN "ERROR_OUTPUT_SPC_MISSING"
    ELSE IF "klabel.json" \in RequiredFiles \ files_retrieved
         THEN "ERROR_OUTPUT_KLABEL_MISSING"
    ELSE "ok"

(***************************************************************************)
(* C1  Past the completeness checks every file parse opens or reads is in  *)
(* the retrieved-file list, and an spc run with a magnetic magtype whose   *)
(* pot.dat_dn.spc is absent is stopped by the check with missing-spc.      *)
(* The code tests pot.dat_up.spc twice (lines 136-141) and never           *)
(* pot.dat_dn.spc, so this is violated.                                    *)
(***************************************************************************)
C1_OpenedFilesWereRetrieved ==
    /\ \A k \in 1..Len(log) :
         log[k][1] \in {"open", "read"} => log[k][2] \in files_retrieved
    /\ (pc # "parse" /\ Prefix(go, 3) = "spc" /\ magtype # "nmag"
        /\ {output_filename, input_filename, "pot.dat_up.spc"} \subseteq files_retrieved
        /\ (retrieve_potential => potential_filename \in files_retrieved)
        /\ "pot.dat_dn.spc" \notin files_retrieved)
       => (pc = "returned" /\ result = "ERROR_OUTPUT_SPC_MISSING" /\ outputs = {})

(***************************************************************************)
(* C2  When a required artifact is absent, parse reports the kind of the   *)
(* first absent one in the order stdout, stdin, potential, spc, klabel.    *)
(* Violated: an absent klabel.json is reported as missing-spc and an       *)
(* absent pot.dat_dn.spc is not reported at all.                           *)
(***************************************************************************)
C2_FirstMissingKindReported ==
    (pc # "parse" /\ FirstMissingKind # "ok")
    => (pc = "returned" /\ result = FirstMissingKind)

(***************************************************************************)
(* C3  In an spc mode with stdout, stdin, potential (if required) and the  *)
(* spc files present and only klabel.json absent, parse reports            *)
(* missing-klabel, a kind different from missing-spc.  Violated: line 145  *)
(* returns ERROR_OUTPUT_SPC_MISSING.                                       *)
(***************************************************************************)
C3_KlabelHasItsOwnKind ==
    (pc # "parse" /\ Prefix(go, 3) = "spc"
     /\ RequiredFiles \ files_retrieved = {"klabel.json"})
    => (pc = "returned" /\ result = "ERROR_OUTPUT_KLABEL_MISSING"
        /\ result # "ERROR_OUTPUT_SPC_MISSING")

\* a step of the run has failed: a presence check, or an extractor raising
\* the library's value-acquisition error
StepFailed ==
    \/ pc # "parse"
       /\ CheckFiles(go, magtype, retrieve_potential, files_retrieved) # "ok"
    \/ lib_exc # <<>> /\ lib_exc[2] = KKRError

(***************************************************************************)
(* C4  Fail-fast with a single final outcome: once a presence check, the   *)
(* stdout extraction or a post-processing step has failed, parse has       *)
(* reported exactly one failure kind (and runs nothing further).           *)
(* Violated: a failing stdout, Jij or Curie-temperature extraction leaves  *)
(* parse as a raw UnboundLocalError, which is no failure kind.             *)
(***************************************************************************)
C4_FailureReportsOneKind ==
    StepFailed => (pc = "returned" /\ result \in FailureKinds)

(***************************************************************************)
(* C5  Every run ends in success or in one kind of the closed failure      *)
(* set; no exception leaves parse raw.  Violated: parse has no outermost   *)
(* handler.                                                                *)
(***************************************************************************)
C5_NoRawException ==
    /\ pc # "raised"
    /\ Terminated => result \in Success \cup FailureKinds

(***************************************************************************)
(* C6  When get_basic_properties raises the value-acquisition error, parse *)
(* ends with the stdout-parse kind and results is not attached.  Violated: *)
(* the except clause at line 158 names a local that is bound only by the   *)
(* import at line 182, so an UnboundLocalError leaves parse.               *)
(***************************************************************************)
C6_StdoutParseKind ==
    lib_exc = <<"get_basic_properties", KKRError>>
    => (pc = "returned" /\ result = "ERROR_OUTPUT_STDOUT_PARSE" /\ "results" \notin outputs)

(***************************************************************************)
(* C7  No spurious outputs: dos and pdos are attached only if go = 'dos',  *)
(* Jij only if go starts with 'j', Tc only if go starts with 'j' or equals *)
(* 'tc', and Awk_up, Awk_dn, klabel only if go starts with 'spc'.          *)
(***************************************************************************)
C7_NoSpuriousOutputs ==
    /\ ({"dos", "pdos"} \cap outputs # {}) => go = "dos"
    /\ ("Jij" \in outputs) => Prefix(go, 1) = "j"
    /\ ("Tc" \in outputs) => (Prefix(go, 1) = "j" \/ go = "tc")
    /\ ({"Awk_up", "Awk_dn", "klabel"} \cap outputs # {}) => Prefix(go, 3) = "spc"
    /\ (go \in {"go", "fsm"}) => outputs \subseteq {"potential", "results", "structure"}

\* a run in a mode outside {dos, j*, tc, spc*} has ended in success with
\* its results attached
C7_Witness ==
    /\ pc = "returned" /\ result \in Success
    /\ go = "fsm" /\ "results" \in outputs /\ "structure" \in outputs

(***************************************************************************)
(* C8  For magtype 'lmd' the structure derivation is skipped without       *)
(* failure: structure is never attached, the transcript is never opened    *)
(* for structure building, no structure call is made, and the skip         *)
(* produces no failure kind.                                               *)
(***************************************************************************)
C8_LmdSkipsStructure ==
    magtype = "lmd"
    => /\ "structure" \notin outputs
       /\ pc # "structure_body"
       /\ ~Logged(<<"call", "make_pymatgenstructure">>)
       /\ ~Logged(<<"call", "get_atoms">>)
       /\ ~Logged(<<"out", "structure">>)
       /\ result # "ERROR_UNEXPECTED_PARSER_EXCEPTION"
       /\ (pc = "structure" => result = "none")
       /\ (pc = "dos" => (result = "none" /\ handles = {}
                          /\ log[Len(log)] = <<"out", "results">>))

\* an lmd run has passed the structure step
C8_Witness ==
    /\ magtype = "lmd" /\ pc = "dos" /\ "results" \in outputs

\* aseadaptor.get_atoms has raised ValueError
ValueErrorSeen == lib_exc = <<"get_atoms", "ValueError">>

(***************************************************************************)
(* C9 (as claimed)  When the conversion raises ValueError the derivation   *)
(* is a skip and not a failure: structure stays absent and parse goes on   *)
(* with the mode steps.  Violated: line 176 returns                        *)
(* ERROR_UNEXPECTED_PARSER_EXCEPTION.                                      *)
(***************************************************************************)
C9_ValueErrorIsSkip ==
    ValueErrorSeen
    => ("structure" \notin outputs /\ result \notin FailureKinds /\ pc # "raised")

(***************************************************************************)
(* C9 (amended)  When magtype is not 'lmd' and the conversion raises       *)
(* ValueError, the error is logged, the structure slot stays absent and    *)
(* parse ends at once with the unexpected-exception kind: no mode step     *)
(* runs and the run does not end in success.                               *)
(***************************************************************************)
C9_ValueErrorIsFailure ==
    ValueErrorSeen
    => /\ magtype # "lmd"
       /\ pc = "returned"
       /\ result = "ERROR_UNEXPECTED_PARSER_EXCEPTION"
       /\ outputs \subseteq {"potential", "results"}
       /\ "results" \in outputs
       /\ handles = {}
       /\ log[Len(log)] = <<"logger.error", "failed to convert">>

C9_Witness ==
    /\ ValueErrorSeen /\ go = "dos" /\ pc = "returned"

(***************************************************************************)
(* C10  For go = 'tc' or go starting with 'j', with all required files     *)
(* present and a well-formed transcript (no call raises), parse ends in    *)
(* success with Tc attached, and Jij attached exactly when go starts with  *)
(* 'j'; for every magtype, 'lmd' included.  Violated for go = 'tc' with    *)
(* magtype 'lmd': line 225 uses job, which no executed branch assigned.    *)
(***************************************************************************)
C10_TcAttachedOnSuccess ==
    (Terminated /\ (go = "tc" \/ Prefix(go, 1) = "j")
     /\ RequiredFiles \subseteq files_retrieved /\ lib_exc = <<>>)
    => /\ pc = "returned" /\ result \in Success
       /\ "Tc" \in outputs
       /\ ("Jij" \in outputs <=> Prefix(go, 1) = "j")

(***************************************************************************)
(* C11  Malformed Jij or Curie-temperature data is reported with its own   *)
(* kind: in a j* mode a value-acquisition error of the Jij extractor gives *)
(* jij-parse, one of the Curie-temperature extractor gives curie-parse,    *)
(* and so in tc mode; claimed for runs whose go is not 'dos'.  Violated:   *)
(* in exactly those runs the import of line 182 has not run, so the except *)
(* clauses at lines 214 and 226 raise UnboundLocalError.                   *)
(***************************************************************************)
C11_JijAndCurieKinds ==
    /\ lib_exc = <<"get_jij_as_dataframe", KKRError>>
       => (pc = "returned" /\ result = "ERROR_OUTPUT_JIJ_PARSE")
    /\ lib_exc = <<"get_curie_temperature", KKRError>>
       => (pc = "returned" /\ result = "ERROR_OUTPUT_CURIE_TEMPERATURE_PARSE")

(***************************************************************************)
(* C12  In dos mode after a successful stdout extraction: a failing DOS    *)
(* extractor gives dos-parse with neither dos nor pdos attached; a failing *)
(* PDOS extractor after a successful DOS gives pdos-parse with dos         *)
(* attached and pdos not; when both succeed both slots are attached, dos   *)
(* holding exactly the arrays 'energy' and 'dos' and pdos the arrays       *)
(* 'energy' and 'pdos', with the returned lists in the returned order.     *)
(***************************************************************************)
C12_DosMode ==
    /\ lib_exc = <<"get_dos", KKRError>>
       => /\ pc = "returned" /\ result = "ERROR_OUTPUT_DOS_PARSE"
          /\ {"dos", "pdos"} \cap outputs = {}
          /\ arrays = {}
    /\ lib_exc = <<"get_pdos", KKRError>>
       => /\ pc = "returned" /\ result = "ERROR_OUTPUT_PDOS_PARSE"
          /\ result # "ERROR_OUTPUT_DOS_PARSE"
          /\ "dos" \in outputs /\ "pdos" \notin outputs
    /\ "dos" \in outputs
       => \E e \in returned :
            /\ e[1] = "get_dos"
            /\ { a \in arrays : a[1] = "dos" } = { <<"dos", "energy", e[2]>>, <<"dos", "dos", e[3]>> }
    /\ "pdos" \in outputs
       => \E e \in returned :
            /\ e[1] = "get_pdos"
            /\ { a \in arrays : a[1] = "pdos" } = { <<"pdos", "energy", e[2]>>, <<"pdos", "pdos", e[3]>> }
    /\ (go = "dos" /\ (pc \in {"jij", "tc", "spc", "end"}
                       \/ (pc = "returned" /\ result \in Success)))
       => {"dos", "pdos"} \subseteq outputs

\* a dos run has ended in success with the table of Scenario A's shape: two
\* different rows, stored in the order returned
C12_Witness ==
    /\ go = "dos" /\ pc = "returned" /\ result \in Success
    /\ <<"dos", "energy", <<"-1.0", "-0.5">> >> \in arrays
    /\ <<"dos", "dos", <<"0.1", "0.3">> >> \in arrays
    /\ "pdos" \in outputs

(***************************************************************************)
(* C13  In spc modes a non-magnetic run whose folder holds pot.dat_up.spc  *)
(* and klabel.json (with stdout, stdin and, if required, pot.dat) passes   *)
(* the completeness check whether or not pot.dat_dn.spc is there; on       *)
(* success Awk_up and klabel are attached, and Awk_dn is attached exactly  *)
(* when magtype is not nmag.                                               *)
(***************************************************************************)
C13_SpcOutputs ==
    /\ (pc # "parse" /\ Prefix(go, 3) = "spc" /\ magtype = "nmag"
        /\ {output_filename, input_filename, "pot.dat_up.spc", "klabel.json"}
               \subseteq files_retrieved
        /\ (retrieve_potential => potential_filename \in files_retrieved))
       => result \notin PresenceKinds
    /\ (pc = "returned" /\ result \in Success /\ Prefix(go, 3) = "spc")
       => /\ {"Awk_up", "klabel"} \subseteq outputs
          /\ ("Awk_dn" \in outputs <=> magtype # "nmag")

\* Scenario C: a non-magnetic spc31 run without pot.dat_dn.spc has ended in
\* success
C13_Witness ==
    /\ go = "spc31" /\ magtype = "nmag" /\ "pot.dat_dn.spc" \notin files_retrieved
    /\ pc = "returned" /\ result \in Success
    /\ {"Awk_up", "klabel"} \subseteq outputs /\ "Awk_dn" \notin outputs

(***************************************************************************)
(* C14  pot.dat is required by the completeness check if and only if       *)
(* retrieve_potential is set: with stdout and stdin present, a run with    *)
(* retrieve_potential set and no pot.dat ends in missing-potential, and a  *)
(* run with retrieve_potential unset never ends in missing-potential.      *)
(***************************************************************************)
C14_PotentialRequiredIffRequested ==
    /\ (pc # "parse" /\ {output_filename, input_filename} \subseteq files_retrieved
        /\ retrieve_potential /\ potential_filename \notin files_retrieved)
       => (pc = "returned" /\ result = "ERROR_OUTPUT_POTENTIAL_MISSING")
    /\ ~retrieve_potential => result # "ERROR_OUTPUT_POTENTIAL_MISSING"
    /\ result = "ERROR_OUTPUT_POTENTIAL_MISSING"
       => (retrieve_potential /\ potential_filename \notin files_retrieved)

\* Scenario B: a go run with retrieve_potential set and no pot.dat has been
\* stopped by the check
C14_Witness ==
    /\ go = "go" /\ retrieve_potential /\ potential_filename \notin files_retrieved
    /\ pc = "returned" /\ result = "ERROR_OUTPUT_POTENTIAL_MISSING" /\ log = << <<"list", "">> >>

(***************************************************************************)
(* C15  The completeness check is monotonic in the retrieved-file set: for *)
(* fixed go, magtype and retrieve_potential, if the check has passed on    *)
(* the retrieved files it passes on every larger file set.                 *)
(***************************************************************************)
C15_CheckMonotonic ==
    (pc # "parse" /\ result \notin PresenceKinds)
    => \A more \in SUBSET AllFiles :
         files_retrieved \subseteq more
         => CheckFiles(go, magtype, retrieve_potential, more) = "ok"

\* the check has passed on a file set that can still grow
C15_Witness ==
    /\ pc = "add_potential" /\ go = "spc31" /\ magtype = "nmag" /\ ~retrieve_potential
    /\ files_retrieved = {output_filename, input_filename, "pot.dat_up.spc", "klabel.json"}

(***************************************************************************)
(* Exit codes declared by the calculation classes (akaikkr_calcjob.py)     *)
(***************************************************************************)
CalcClasses == {"specx_basic", "specx_fsm", "specx_dos", "specx_jij", "specx_tc", "specx_spc"}

\* spec.exit_code(status, label, ...) calls of cls.define, those inherited
\* through super().define(spec) included; every class declares the same one
exit_codes(cls) == { <<300, "ERROR_MISSING_OUTPUT_FILES">> }

(***************************************************************************)
(* C16  Every failure kind the parser returns is an exit code declared by  *)
(* the calculation class of the node, and the declared kinds carry         *)
(* pairwise distinct statuses.  Violated: the classes declare only         *)
(* ERROR_MISSING_OUTPUT_FILES (300), which parse never returns.            *)
(***************************************************************************)
C16_ReturnedKindsDeclared ==
    \A cls \in CalcClasses :
      /\ (pc = "returned" /\ result \notin Success)
         => \E e \in exit_codes(cls) : e[2] = result
      /\ \A e1, e2 \in exit_codes(cls) : e1[1] = e2[1] => e1[2] = e2[2]

(***************************************************************************)
(* C17  For every presence-flag sequence and energy sequence of the        *)
(* core-level scan, core_level has exactly the nine keys 1s .. 4f, each    *)
(* mapped to its energy when its flag is true and to None otherwise.       *)
(***************************************************************************)
C17_CoreLevelMapping ==
    props.status = "ok"
    => LET made == props.results["core_level"]
       IN  /\ DOMAIN made = {"1s", "2s", "2p", "3s", "3d", "4s", "4p", "4d", "4f"}
           /\ \A k \in 1..Len(core_names) :
                made[core_names[k]] = IF output_card.core_exist[k]
                                      THEN output_card.core_level[k]
                                      ELSE "None"

\* a record has been returned for a transcript with some labels present and
\* some absent
C17_Witness ==
    /\ pc = "called" /\ props.status = "ok"
    /\ output_card.core_exist[1] /\ ~output_card.core_exist[2] /\ ~output_card.core_exist[9]
    /\ props.results["core_level"]["1s"] = "-500.1"
    /\ props.results["core_level"]["4f"] = "None"

HistoryKeys == {"rms_error", "err_history", "te_history", "moment_history"}

PropertyKeys ==
    {"convervence", "lattice_constant", "struc_param", "ntype", "type_of_site", "magtyp",
     "unitcell_volume", "ewidth", "go", "potentialfile", "edelt", "fermi_level",
     "total_energy", "total_moment", "local_moment", "type_charge", "prim_vec",
     "atom_coords", "atom_names", "core_level"} \cup HistoryKeys

(***************************************************************************)
(* C18 (as claimed)  get_basic_properties either raises or returns a       *)
(* record holding every listed property key, the same key set for every    *)
(* call, and parse never attaches a partial record.  Violated: with        *)
(* get_history false the four history keys are left out (line 43).         *)
(***************************************************************************)
C18_AllOrNothing ==
    /\ props.status = "ok" => DOMAIN props.results = PropertyKeys
    /\ "results" \in outputs => (props.status = "ok" /\ DOMAIN props.results = PropertyKeys)

(***************************************************************************)
(* C18 (amended)  get_basic_properties either raises or returns a record   *)
(* whose key set is fixed by get_history alone, never by the transcript:   *)
(* all property keys when get_history is true (the default, which parse    *)
(* uses), and those keys without rms_error, err_history, te_history and    *)
(* moment_history when it is false; parse attaches results only as the     *)
(* full record and never after a raise.                                    *)
(***************************************************************************)
C18_AllOrNothingPerHistory ==
    /\ props.status = "ok"
       => DOMAIN props.results = IF get_history THEN PropertyKeys
                                 ELSE PropertyKeys \ HistoryKeys
    /\ props.status = "raised" => "results" \notin outputs
    /\ "results" \in outputs => (props.status = "ok" /\ DOMAIN props.results = PropertyKeys)
    /\ pc = "called" => props.status \in {"ok", "raised"}

\* a record without the history keys has been returned
C18_Witness ==
    /\ pc = "called" /\ ~get_history /\ props.status = "ok"
    /\ "rms_error" \notin DOMAIN props.results
    /\ "core_level" \in DOMAIN props.results

(***************************************************************************)
(* C20 (as claimed)  A run of parse that ends in a failure kind has no     *)
(* output slot attached.  Violated: parse attaches each slot as soon as it *)
(* is built (lines 151, 160, 179, 194), before the later steps can fail.   *)
(***************************************************************************)
C20_NoOutputsOnFailure ==
    (pc = "returned" /\ result \in FailureKinds) => outputs = {}

\* the slots attached before the mode steps
AttachedBeforeModes ==
    (IF retrieve_potential THEN {"potential"} ELSE {}) \cup {"results"}
    \cup (IF magtype # "lmd" THEN {"structure"} ELSE {})

(***************************************************************************)
(* C20 (amended)  A run that ends in a presence failure has no output slot *)
(* attached.  A run that ends in a later failure kind keeps exactly the    *)
(* slots attached before the failing step: potential (if retrieve_potential*)
(* is set) and results for the unexpected-exception kind, these and        *)
(* structure (unless magtype is lmd) for dos-parse, and these and dos for  *)
(* pdos-parse.                                                             *)
(***************************************************************************)
C20_OutputsUpToFailingStep ==
    pc = "returned"
    => /\ result \in PresenceKinds => outputs = {}
       /\ result = "ERROR_UNEXPECTED_PARSER_EXCEPTION"
          => outputs = AttachedBeforeModes \ {"structure"}
       /\ result = "ERROR_OUTPUT_DOS_PARSE" => outputs = AttachedBeforeModes
       /\ result = "ERROR_OUTPUT_PDOS_PARSE" => outputs = AttachedBeforeModes \cup {"dos"}

\* a run has ended in pdos-parse with potential, results and dos attached
C20_Witness ==
    /\ pc = "returned" /\ result = "ERROR_OUTPUT_PDOS_PARSE"
    /\ {"potential", "results", "dos"} \subseteq outputs /\ "pdos" \notin outputs

\* log events that open or read a file of the folder, call into a library
\* or attach an output
WorkEvents == {"open", "read", "call", "out"}

\* the run has done some work on the folder's files
WorkDone == \E k \in 1..Len(log) : log[k][1] \in WorkEvents

(***************************************************************************)
(* C21  Presence checks precede all other work: no file is opened or read, *)
(* no extractor is called and no output is attached until the presence     *)
(* checks of lines 115-145 have passed; a run that ends in a presence      *)
(* failure has read nothing and attached nothing.                          *)
(***************************************************************************)
C21_PresenceChecksFirst ==
    /\ pc = "parse" => (log = <<>> /\ outputs = {} /\ handles = {})
    /\ (WorkDone \/ outputs # {} \/ handles # {})
       => /\ CheckFiles(go, magtype, retrieve_potential, files_retrieved) = "ok"
          /\ log[1] = <<"list", "">>
    /\ (pc = "returned" /\ result \in PresenceKinds)
       => (~WorkDone /\ outputs = {} /\ handles = {})

\* a run has ended in a presence failure on a folder that holds the
\* transcript, after listing the folder
C21_Witness ==
    /\ pc = "returned" /\ result = "ERROR_OUTPUT_SPC_MISSING"
    /\ output_filename \in files_retrieved
    /\ log = << <<"list", "">> >>

(***************************************************************************)
(* C22  No file handle leaks: at every exit of parse (success, a failure   *)
(* return taken inside a with block, an exception) no file opened by parse *)
(* is still open, and at most one file is open at any time.                *)
(***************************************************************************)
C22_NoHandleLeak ==
    /\ Cardinality(handles) <= 1
    /\ pc \in {"returned", "raised"} => handles = {}

\* parse has returned the pdos-parse kind from inside the second with block
\* of the dos step, and the transcript it had opened is closed
C22_Witness ==
    /\ pc = "returned" /\ result = "ERROR_OUTPUT_PDOS_PARSE"
    /\ lib_exc = <<"get_pdos", KKRError>>
    /\ Logged(<<"open", output_filename>>)
    /\ handles = {}

\* how many times the event was logged
Count(event) == Cardinality({k \in 1..Len(log) : log[k] = event})

\* every occurrence of event a is earlier in the run than every occurrence of b
Before(a, b) == \A i, j \in 1..Len(log) : (log[i] = a /\ log[j] = b) => i < j

\* the slots of the structure step and of the mode steps
LaterSlots == {"structure", "dos", "pdos", "Jij", "Tc", "Awk_up", "Awk_dn", "klabel"}

\* the first event of each mode step
ModeEvents == { <<"call", "get_dos">>, <<"call", "get_pdos">>,
                <<"call", "get_jij_as_dataframe">>, <<"call", "get_curie_temperature">>,
                <<"open", JoinName("up.spc")>>, <<"open", JoinName("dn.spc")>>,
                <<"open", "klabel.json">> }

(***************************************************************************)
(* C23  The steps of parse run in a fixed order with none repeated:        *)
(* get_basic_properties is called once in every run whose presence checks  *)
(* passed and in no other run; whenever any of structure, dos, pdos, Jij,  *)
(* Tc, Awk_up, Awk_dn, klabel is attached, results is attached too, and    *)
(* results was attached before the structure step and every mode step      *)
(* began; the structure derivation precedes every mode step, get_dos       *)
(* precedes get_pdos and get_jij_as_dataframe precedes                     *)
(* get_curie_temperature; no extractor is called twice.                    *)
(***************************************************************************)
C23_StepOrder ==
    /\ Count(<<"call", "get_basic_properties">>) <= 1
    /\ Logged(<<"call", "get_basic_properties">>)
       => CheckFiles(go, magtype, retrieve_potential, files_retrieved) = "ok"
    /\ (pc \in {"returned", "raised"}
        /\ CheckFiles(go, magtype, retrieve_potential, files_retrieved) = "ok")
       => Count(<<"call", "get_basic_properties">>) = 1
    /\ outputs \cap LaterSlots # {} => "results" \in outputs
    /\ \A e \in ModeEvents \cup { <<"call", "make_pymatgenstructure">> } :
         /\ Count(e) <= 1
         /\ Logged(e) => Logged(<<"out", "results">>)
         /\ Before(<<"out", "results">>, e)
         /\ Before(<<"call", "get_basic_properties">>, e)
    /\ \A e \in ModeEvents :
         /\ Before(<<"call", "make_pymatgenstructure">>, e)
         /\ Before(<<"call", "get_atoms">>, e)
         /\ Before(<<"out", "structure">>, e)
         /\ (Logged(e) /\ DerivesStructure(magtype)) => Logged(<<"out", "structure">>)
    /\ Before(<<"call", "get_dos">>, <<"call", "get_pdos">>)
    /\ Logged(<<"call", "get_pdos">>) => Logged(<<"out", "dos">>)
    /\ Before(<<"call", "get_jij_as_dataframe">>, <<"call", "get_curie_temperature">>)
    /\ (Logged(<<"call", "get_curie_temperature">>) /\ RunsJij(go)) => Logged(<<"out", "Jij">>)

\* a j run has gone through every step: results, structure, Jij and Tc are
\* attached and parse has returned success
C23_Witness ==
    /\ pc = "returned" /\ result \in Success
    /\ RunsJij(go)
    /\ outputs = {"results", "structure", "Jij", "Tc"}
    /\ Count(<<"call", "get_basic_properties">>) = 1

(***************************************************************************)
(* Submission: prepare_for_submission of the calculation classes           *)
(* (aiida_akaikkr/calculations/akaikkr_calcjob.py)                         *)
(***************************************************************************)
\* the class attribute _GO, the default of the go input
GO(cls) ==
    CASE cls = "specx_basic" -> "go"
      [] cls = "specx_fsm" -> "fsm"
      [] cls = "specx_dos" -> "dos"
      [] cls = "specx_jij" -> "j3.0"
      [] cls = "specx_tc" -> "tc"
      [] cls = "specx_spc" -> "spc31"

POTENTIAL_FILE == "pot.dat"
KLABEL_FILENAME == "klabel.json"

\* prepare_for_submission with specx_spc registering the list of specx_basic
prepare_for_submission_inherited(cls, rp) ==
    <<output_filename, input_filename>>
    \o (IF rp THEN <<POTENTIAL_FILE>> ELSE <<>>)

\* calcinfo.retrieve_list as prepare_for_submission leaves it: specx_basic
\* (inherited by specx_dos, specx_jij and specx_tc) and specx_fsm register
\* the transcript and the input card, specx_spc also klabel.json and the
\* pattern pot.dat_*; each appends pot.dat when retrieve_potential is set
prepare_for_submission(cls, rp) ==
    (IF cls = "specx_spc"
     THEN <<output_filename, input_filename, KLABEL_FILENAME, POTENTIAL_FILE \o "_*">>
     ELSE <<output_filename, input_filename>>)
    \o (IF rp THEN <<POTENTIAL_FILE>> ELSE <<>>)

\* a retrieve_list entry matches a file name: the name itself, or with a
\* trailing * every name that starts with what precedes the *
fnmatch(name, pat) ==
    IF Len(pat) > 0 /\ SubSeq(pat, Len(pat), Len(pat)) = "*"
    THEN /\ Len(name) >= Len(pat) - 1
         /\ Prefix(name, Len(pat) - 1) = Prefix(pat, Len(pat) - 1)
    ELSE name = pat

\* a calculation node about to be submitted, with the go value of its class
InitSubmit ==
    /\ aiida_major_version \in Versions
    /\ process_class \in CalcClasses
    /\ go = GO(process_class)
    /\ magtype \in MagTypes
    /\ retrieve_potential \in BOOLEAN
    /\ files_retrieved = {}
    /\ retrieve_list = <<>>
    /\ pc = "submit"
    /\ result = "none"
    /\ outputs = {}
    /\ handles = {}
    /\ bound = {}
    /\ spc_i = 1
    /\ lib_exc = <<>>
    /\ returned = {}
    /\ arrays = {}
    /\ output_card = NoCard
    /\ get_history = TRUE
    /\ props = NoProps
    /\ log = <<>>

PrepareForSubmission ==
    /\ pc = "submit"
    /\ retrieve_list' = prepare_for_submission(process_class, retrieve_potential)
    /\ pc' = "submitted"
    /\ UNCHANGED <<aiida_major_version, go, magtype, retrieve_potential, files_retrieved,
                   process_class, data, basic, result, outputs, handles, bound, spc_i,
                   lib_exc, log>>

SpecSubmit == InitSubmit /\ [][PrepareForSubmission]_vars

\* some entry of the registered retrieve_list matches the name
Retrieved(name) == \E k \in 1..Len(retrieve_list) : fnmatch(name, retrieve_list[k])

\* the parser's completeness check fails when only this file is missing
CheckRequires(name) ==
    CheckFiles(go, magtype, retrieve_potential, AllFiles \ {name}) # "ok"

(***************************************************************************)
(* C24  For every calculation class and every value of retrieve_potential, *)
(* each file name the parser's completeness check requires for the class's *)
(* go value is matched by an entry of the retrieve_list registered by the  *)
(* class: the transcript and the input card always, pot.dat exactly when   *)
(* retrieve_potential is set, and for specx_spc klabel.json and, through   *)
(* the pattern pot.dat_*, pot.dat_up.spc and pot.dat_dn.spc.               *)
(***************************************************************************)
C24_RetrieveListCoversCheck ==
    pc = "submitted"
    => /\ \A name \in AllFiles : CheckRequires(name) => Retrieved(name)
       /\ Retrieved(output_filename) /\ Retrieved(input_filename)
       /\ Retrieved(potential_filename) <=> retrieve_potential
       /\ process_class = "specx_spc"
          => /\ Retrieved(klabel_files_expected)
             /\ Retrieved(SpcCheckName("up.spc")) /\ Retrieved(SpcCheckName("dn.spc"))
             /\ CheckRequires(klabel_files_expected) /\ CheckRequires(SpcCheckName("up.spc"))

\* specx_spc has been prepared without retrieve_potential: the list holds the
\* pattern, and the check needs the up file, which only the pattern matches
C24_Witness ==
    /\ pc = "submitted" /\ process_class = "specx_spc" /\ ~retrieve_potential
    /\ retrieve_list = <<output_filename, input_filename, KLABEL_FILENAME, "pot.dat_*">>
    /\ CheckRequires(SpcCheckName("up.spc"))
    /\ ~Retrieved(potential_filename)
====
